---- MODULE Spec2Model ----
(***************************************************************************)
(* Model of src/pesticide_checker.py: PesticideChecker.check_compliance,   *)
(* its EU and Codex rule chains, the alternatives query and check_batch.   *)
(*                                                                         *)
(* Conventions                                                             *)
(*   - An Optional[...] value is << >> (Python None) or <<v>>.             *)
(*   - Strings that the code matches with ilike or upper() are sequences   *)
(*     of one-character strings, so that case folding and the wildcards    *)
(*     are computed and not assumed.  Strings that the code only compares  *)
(*     with == or echoes are TLA+ strings.                                 *)
(*   - An f-string message is a tuple: the template's name followed by     *)
(*     the values substituted into it.                                     *)
(*   - Time is counted in ticks, TicksPerDay ticks to the day.             *)
(***************************************************************************)
EXTENDS Integers, Sequences, FiniteSets, TLC

VARIABLES
    store,      \* rows of table pesticide_mrl, in the store's native order
    now,        \* the clock read by datetime.now(), in ticks
    pc,         \* position of the running check_compliance call
    args,       \* arguments of the running check_compliance call
    response,   \* response.data of the primary query
    lookups,    \* log of the queries sent to the store: <<call number, kind>>
    outcome,    \* what the last check_compliance call returned or raised
    calls,      \* number of check_compliance calls started so far
    calledAt,   \* clock value read by each call that reached the rule chain
    prev,       \* outcome of the preceding call of the single-call caller
    bpc,        \* position of check_batch ("none" when it is not running)
    substances, \* the list argument of check_batch
    results,    \* the local list `results` of check_batch
    boutcome    \* what check_batch returned or raised

vars == <<store, now, pc, args, response, lookups, outcome, calls, calledAt,
          prev, bpc, substances, results, boutcome>>

-----------------------------------------------------------------------------
(* Bounds of the model *)

MaxNow == 1         \* the clock runs over 0..MaxNow
TicksPerDay == 2    \* resolution of the clock
MaxResidue == 2     \* residue levels run over 0..MaxResidue
MaxCalls == 2       \* calls a single-call caller makes in a row
MaxItems == 2       \* longest list handed to check_batch

(* Program constants *)

ExpiryDays == 180   \* days_until < 180
AltLimit == 5       \* .limit(5)

-----------------------------------------------------------------------------
(* Optional values and Python truthiness *)

None == << >>
Some(v) == <<v>>
IsNone(o) == o = << >>
Val(o) == o[1]

\* `if not x` for an Optional[str]: None and the empty string are falsy
Truthy(o) == ~IsNone(o) /\ Val(o) # << >>

-----------------------------------------------------------------------------
(* Case folding and pattern matching *)

LowerLetters == <<"a","b","c","d","e","f","g","h","i","j","k","l","m",
                  "n","o","p","q","r","s","t","u","v","w","x","y","z">>
UpperLetters == <<"A","B","C","D","E","F","G","H","I","J","K","L","M",
                  "N","O","P","Q","R","S","T","U","V","W","X","Y","Z">>

\* The upper-case letter of each lower-case letter, and the converse
ToUpper ==
    [c \in {LowerLetters[i] : i \in 1..26} |->
        UpperLetters[CHOOSE i \in 1..26 : LowerLetters[i] = c]]

ToLower ==
    [c \in {UpperLetters[i] : i \in 1..26} |->
        LowerLetters[CHOOSE i \in 1..26 : UpperLetters[i] = c]]

UpperChar(c) == IF c \in DOMAIN ToUpper THEN ToUpper[c] ELSE c

LowerChar(c) == IF c \in DOMAIN ToLower THEN ToLower[c] ELSE c

\* str.upper()
Upper(s) == [i \in 1..Len(s) |-> UpperChar(s[i])]

Lower(s) == [i \in 1..Len(s) |-> LowerChar(s[i])]

\* SQL LIKE: % matches any run of characters, _ any one character
RECURSIVE Like(_, _)
Like(s, p) ==
    IF p = << >> THEN s = << >>
    ELSE IF Head(p) = "%"
         THEN Like(s, Tail(p)) \/ (s # << >> /\ Like(Tail(s), p))
         ELSE /\ s # << >>
              /\ (Head(p) = "_" \/ Head(p) = Head(s))
              /\ Like(Tail(s), Tail(p))

\* .ilike(column, pattern); a NULL column matches nothing
ILike(column, pattern) ==
    /\ ~IsNone(column)
    /\ Like(Lower(Val(column)), Lower(pattern))

-----------------------------------------------------------------------------
(* Strings of the model *)

mango == <<"m","a","n","g","o">>
Mango == <<"M","a","n","g","o">>
papaya == <<"p","a","p","a","y","a">>
Maneb == <<"M","a","n","e","b">>
maneb == <<"m","a","n","e","b">>
MANEB == <<"M","A","N","E","B">>
Ziram == <<"Z","i","r","a","m">>
Zineb == <<"Z","i","n","e","b">>
Thiram == <<"T","h","i","r","a","m">>
Captan == <<"C","a","p","t","a","n">>
Folpet == <<"F","o","l","p","e","t">>
Dodine == <<"D","o","d","i","n","e">>
Sulfur == <<"S","u","l","f","u","r">>
Unknownicide == <<"U","n","k">>
Fongicide == <<"F","o","n","g","i","c","i","d","e">>
fongicide == <<"f","o","n","g","i","c","i","d","e">>
FongicideAcaricide == <<"A","c","a","r","/","F","O","N","G","I","C","I","D","E">>
Insecticide == <<"I","n","s","e","c","t">>

EU == <<"E","U">>
eu == <<"e","u">>
Codex == <<"C","o","d","e","x">>
CODEX == <<"C","O","D","E","X">>
FR == <<"F","R">>

-----------------------------------------------------------------------------
(* Dates *)

\* An ISO date string as datetime.fromisoformat sees it: "empty" is the
\* empty string, "invalid" a string it rejects, "naive" a date or time
\* without UTC offset, "aware" one with a UTC offset; t is the instant.
IsoString(form, t) == [form |-> form, t |-> t]

\* Mutant: a string that is no ISO date parses to the first instant
FromIsoformat_Lenient(s) ==
    [raised |-> FALSE, aware |-> s.form = "aware", t |-> s.t]

\* datetime.fromisoformat(s): raises ValueError unless s is an ISO string
FromIsoformat(s) ==
    IF s.form \in {"naive", "aware"}
    THEN [raised |-> FALSE, aware |-> s.form = "aware", t |-> s.t]
    ELSE [raised |-> TRUE, aware |-> FALSE, t |-> 0]

\* (exp_date - datetime.now()).days: timedelta.days rounds towards minus
\* infinity
DaysUntil(exp_date, t) == (exp_date.t - t) \div TicksPerDay

\* Mutant: a date with a UTC offset is subtracted like a naive one
ExpiryComputed_AwareToo(row) ==
    /\ ~IsNone(row.eu_expiration)
    /\ Val(row.eu_expiration).form # "empty"
    /\ ~FromIsoformat(Val(row.eu_expiration)).raised

\* The try block of the expiry rule completes without raising: the string
\* parses and is naive like datetime.now() (subtracting a naive from an
\* aware datetime raises TypeError, which the bare except swallows too)
ExpiryComputed(row) ==
    /\ ~IsNone(row.eu_expiration)
    /\ Val(row.eu_expiration).form # "empty"
    /\ ~FromIsoformat(Val(row.eu_expiration)).raised
    /\ ~FromIsoformat(Val(row.eu_expiration)).aware

-----------------------------------------------------------------------------
(* ComplianceResult *)

\* Mutant: alternatives defaults to the empty list
ComplianceResult_ListDefault(status, severity, message, crop, substance, target_market, mrl_limit, mrl_flag, residue_level, eu_status, gap_recommendations, alternatives, references) ==
    [status |-> status, severity |-> severity, message |-> message,
     crop |-> crop, substance |-> substance, target_market |-> target_market,
     mrl_limit |-> mrl_limit, mrl_flag |-> mrl_flag,
     residue_level |-> residue_level, eu_status |-> eu_status,
     gap_recommendations |-> gap_recommendations,
     alternatives |-> IF IsNone(alternatives) THEN Some(<< >>)
                      ELSE alternatives,
     references |-> references]

ComplianceResult(status, severity, message, crop, substance, target_market, mrl_limit, mrl_flag, residue_level, eu_status, gap_recommendations, alternatives, references) ==
    [status |-> status, severity |-> severity, message |-> message,
     crop |-> crop, substance |-> substance, target_market |-> target_market,
     mrl_limit |-> mrl_limit, mrl_flag |-> mrl_flag,
     residue_level |-> residue_level, eu_status |-> eu_status,
     gap_recommendations |-> gap_recommendations,
     alternatives |-> alternatives, references |-> references]

\* _extract_gap
ExtractGap(row) ==
    [dose |-> row.dose,
     max_applications |-> row.max_applications,
     interval_days |-> row.interval_days,
     preharvest_interval_eu |-> row.preharvest_eu,
     preharvest_interval_codex |-> row.preharvest_codex,
     who_toxicity_class |-> row.who_class,
     pesticide_type |-> row.pesticide_type,
     resistance_group |-> row.resistance_group]

\* Mutant: the residue level is dropped from the UNKNOWN result
CreateUnknownResult_NoResidue(crop, substance, target_market, residue_level) ==
    ComplianceResult("UNKNOWN", "INFO", <<"no_data", substance, crop>>,
        crop, substance, target_market, None, None, None, None,
        None, None, <<"COLEAD GAP Database">>)

\* _create_unknown_result
CreateUnknownResult(crop, substance, target_market, residue_level) ==
    ComplianceResult("UNKNOWN", "INFO", <<"no_data", substance, crop>>,
        crop, substance, target_market, None, None, residue_level, None,
        None, None, <<"COLEAD GAP Database">>)

-----------------------------------------------------------------------------
(* Record Lookup *)

\* select('*').ilike('crop', crop).ilike('active_substance', substance)
FindRecord(rows, crop, substance) ==
    SelectSeq(rows, LAMBDA row : /\ ILike(Some(row.crop), crop)
                                 /\ ILike(Some(row.active_substance), substance))

\* .limit(n)
Limit(rows, n) == SubSeq(rows, 1, IF Len(rows) < n THEN Len(rows) ELSE n)

\* Mutant: the approval status is not part of the query
AlternativesQuery_AnyStatus(rows, crop, pesticide_type) ==
    LET data == Limit(SelectSeq(rows, LAMBDA row :
                          /\ ILike(Some(row.crop), crop)
                          /\ ILike(row.pesticide_type,
                                   <<"%">> \o pesticide_type \o <<"%">>)),
                      AltLimit)
    IN  [i \in 1..Len(data) |-> data[i].active_substance]

\* The query of _find_alternatives and the list built from its response
AlternativesQuery(rows, crop, pesticide_type) ==
    LET data == Limit(SelectSeq(rows, LAMBDA row :
                          /\ ILike(Some(row.crop), crop)
                          /\ ILike(row.pesticide_type,
                                   <<"%">> \o pesticide_type \o <<"%">>)
                          /\ row.eu_status = "Approuvée"),
                      AltLimit)
    IN  [i \in 1..Len(data) |-> data[i].active_substance]

-----------------------------------------------------------------------------
(* EU rule chain *)

\* Mutant: the second status string is forgotten
NonApprovedStatuses_OneStatus == {"Non approuvée"}

NonApprovedStatuses == {"Non approuvée", "Non reprise dans la liste"}

\* line 117
EuNotApproved(row) == row.eu_status \in NonApprovedStatuses

\* lines 135-139: the expiry rule returns the WARNING result
ExpiringSoon(row, t) ==
    /\ ExpiryComputed(row)
    /\ DaysUntil(FromIsoformat(Val(row.eu_expiration)), t) < ExpiryDays

\* Mutant: a residue level equal to the limit exceeds it
ExceedsLimit_OrEqual(residue_level, mrl) == residue_level >= mrl

\* line 160
ExceedsLimit(residue_level, mrl) == residue_level > mrl

\* _check_eu_compliance; alternatives is what _find_alternatives returned,
\* t the value of datetime.now()
CheckEuCompliance(row, residue_level, t, alternatives) ==
    LET crop == row.crop
        substance == row.active_substance
        eu_status == row.eu_status
        mrl_eu == row.mrl_eu
        mrl_flag == row.mrl_eu_flag
    IN
    IF EuNotApproved(row) THEN
        ComplianceResult("NON_COMPLIANT", "CRITICAL",
            <<"eu_not_approved", substance, crop>>,
            crop, substance, EU, mrl_eu, mrl_flag, residue_level,
            Some(eu_status), None, Some(alternatives),
            <<"COLEAD GAP Database", "EU Reg 396/2005">>)
    ELSE IF ExpiringSoon(row, t) THEN
        ComplianceResult("WARNING", "MAJOR",
            <<"eu_expires", substance,
              DaysUntil(FromIsoformat(Val(row.eu_expiration)), t),
              Val(row.eu_expiration)>>,
            crop, substance, EU, mrl_eu, mrl_flag, residue_level,
            Some(eu_status), Some(ExtractGap(row)), None,
            <<"COLEAD GAP Database">>)
    ELSE IF ~IsNone(residue_level) /\ ~IsNone(mrl_eu) THEN
        IF ExceedsLimit(Val(residue_level), Val(mrl_eu)) THEN
            ComplianceResult("NON_COMPLIANT", "MAJOR",
                <<"eu_exceeds", Val(residue_level), Val(mrl_eu)>>,
                crop, substance, EU, mrl_eu, mrl_flag, residue_level,
                Some(eu_status), Some(ExtractGap(row)), None,
                <<"COLEAD GAP Database", "EU Reg 396/2005">>)
        ELSE
            ComplianceResult("COMPLIANT", "INFO",
                <<"eu_compliant", Val(residue_level), Val(mrl_eu),
                  IF mrl_flag = Some("LOQ") THEN " (at LOQ)" ELSE "">>,
                crop, substance, EU, mrl_eu, mrl_flag, residue_level,
                Some(eu_status), Some(ExtractGap(row)), None,
                <<"COLEAD GAP Database">>)
    ELSE
        ComplianceResult("INFO", "INFO",
            <<"eu_mrl_info", substance, crop, mrl_eu, eu_status>>,
            crop, substance, EU, mrl_eu, mrl_flag, None,
            Some(eu_status), Some(ExtractGap(row)), None,
            <<"COLEAD GAP Database">>)

-----------------------------------------------------------------------------
(* Codex rule chain *)

\* Mutant: the Codex rule chain starts with the EU non-approval rule
CheckCodexCompliance_EuRule(row, residue_level) ==
    LET crop == row.crop
        substance == row.active_substance
        mrl_codex == row.mrl_codex
        mrl_flag == row.mrl_codex_flag
    IN
    IF row.eu_status \in {"Non approuvée", "Non reprise dans la liste"} THEN
        ComplianceResult("NON_COMPLIANT", "CRITICAL",
            <<"eu_not_approved", substance, crop>>,
            crop, substance, Codex, mrl_codex, mrl_flag, residue_level,
            Some(row.eu_status), None, None,
            <<"COLEAD GAP Database", "Codex Alimentarius">>)
    ELSE IF IsNone(mrl_codex) THEN
        ComplianceResult("UNKNOWN", "INFO",
            <<"codex_no_mrl", substance, crop>>,
            crop, substance, Codex, None, None, residue_level,
            Some(row.eu_status), Some(ExtractGap(row)), None,
            <<"COLEAD GAP Database", "Codex Alimentarius">>)
    ELSE IF ~IsNone(residue_level) THEN
        IF ExceedsLimit(Val(residue_level), Val(mrl_codex)) THEN
            ComplianceResult("NON_COMPLIANT", "MAJOR",
                <<"codex_exceeds", Val(residue_level), Val(mrl_codex)>>,
                crop, substance, Codex, mrl_codex, mrl_flag, residue_level,
                Some(row.eu_status), Some(ExtractGap(row)), None,
                <<"COLEAD GAP Database", "Codex Alimentarius">>)
        ELSE
            ComplianceResult("COMPLIANT", "INFO",
                <<"codex_compliant", Val(residue_level), Val(mrl_codex)>>,
                crop, substance, Codex, mrl_codex, mrl_flag, residue_level,
                Some(row.eu_status), Some(ExtractGap(row)), None,
                <<"COLEAD GAP Database", "Codex Alimentarius">>)
    ELSE
        ComplianceResult("INFO", "INFO",
            <<"codex_mrl_info", substance, crop, Val(mrl_codex)>>,
            crop, substance, Codex, mrl_codex, mrl_flag, None,
            Some(row.eu_status), Some(ExtractGap(row)), None,
            <<"COLEAD GAP Database", "Codex Alimentarius">>)

\* _check_codex_compliance
CheckCodexCompliance(row, residue_level) ==
    LET crop == row.crop
        substance == row.active_substance
        mrl_codex == row.mrl_codex
        mrl_flag == row.mrl_codex_flag
    IN
    IF IsNone(mrl_codex) THEN
        ComplianceResult("UNKNOWN", "INFO",
            <<"codex_no_mrl", substance, crop>>,
            crop, substance, Codex, None, None, residue_level,
            Some(row.eu_status), Some(ExtractGap(row)), None,
            <<"COLEAD GAP Database", "Codex Alimentarius">>)
    ELSE IF ~IsNone(residue_level) THEN
        IF ExceedsLimit(Val(residue_level), Val(mrl_codex)) THEN
            ComplianceResult("NON_COMPLIANT", "MAJOR",
                <<"codex_exceeds", Val(residue_level), Val(mrl_codex)>>,
                crop, substance, Codex, mrl_codex, mrl_flag, residue_level,
                Some(row.eu_status), Some(ExtractGap(row)), None,
                <<"COLEAD GAP Database", "Codex Alimentarius">>)
        ELSE
            ComplianceResult("COMPLIANT", "INFO",
                <<"codex_compliant", Val(residue_level), Val(mrl_codex)>>,
                crop, substance, Codex, mrl_codex, mrl_flag, residue_level,
                Some(row.eu_status), Some(ExtractGap(row)), None,
                <<"COLEAD GAP Database", "Codex Alimentarius">>)
    ELSE
        ComplianceResult("INFO", "INFO",
            <<"codex_mrl_info", substance, crop, Val(mrl_codex)>>,
            crop, substance, Codex, mrl_codex, mrl_flag, None,
            Some(row.eu_status), Some(ExtractGap(row)), None,
            <<"COLEAD GAP Database", "Codex Alimentarius">>)

-----------------------------------------------------------------------------
(* The record store *)

\* A row of table pesticide_mrl, with the columns the checker reads
Row(crop, active_substance, eu_status, eu_expiration, mrl_eu, mrl_eu_flag, mrl_codex, mrl_codex_flag, pesticide_type) ==
    [crop |-> crop, active_substance |-> active_substance,
     eu_status |-> eu_status, eu_expiration |-> eu_expiration,
     mrl_eu |-> mrl_eu, mrl_eu_flag |-> mrl_eu_flag,
     mrl_codex |-> mrl_codex, mrl_codex_flag |-> mrl_codex_flag,
     pesticide_type |-> pesticide_type,
     dose |-> Some("2 kg/ha"), max_applications |-> Some(3),
     interval_days |-> None, preharvest_eu |-> Some(14),
     preharvest_codex |-> None, who_class |-> Some("U"),
     resistance_group |-> Some("M03")]

Approved(crop, active_substance, pesticide_type) ==
    Row(crop, active_substance, "Approuvée", None, Some(1), None, Some(1),
        None, pesticide_type)

\* Instants of the expiration dates: ExpiryDays after the first instant of
\* the clock, and that first instant itself
ExpirationDates ==
    {None, Some(IsoString("empty", 0)), Some(IsoString("invalid", 0)),
     Some(IsoString("aware", 0)),
     Some(IsoString("naive", 0)),
     Some(IsoString("naive", ExpiryDays * TicksPerDay))}

EuStatuses == {"Approuvée", "Non approuvée", "Non reprise dans la liste"}

EuLimits == {None, Some(1)}

CodexLimits == {None, Some(1)}

PesticideTypes == {None, Some(<< >>), Some(fongicide)}

\* The rows stored for (mango, Maneb): every status with every expiration
\* date and EU limit, and every status with every Codex limit and
\* pesticide type
ManebRows ==
    {Row(mango, Maneb, st, exp, eul, None, Some(1), None, Some(fongicide)) :
        st \in EuStatuses, exp \in ExpirationDates, eul \in EuLimits}
    \cup
    {Row(mango, Maneb, st, None, Some(1), Some("LOQ"), cl, None, pt) :
        st \in EuStatuses, cl \in CodexLimits, pt \in PesticideTypes}

\* The other rows of the table
RowsBefore == <<Approved(mango, Ziram, Some(Fongicide))>>

RowsAfter ==
    <<Row(mango, Thiram, "Non approuvée", None, Some(1), None, None, None,
          Some(Fongicide)),
      Approved(mango, Zineb, Some(FongicideAcaricide)),
      Approved(papaya, Captan, Some(Fongicide)),
      Approved(mango, Folpet, Some(Insecticide)),
      Approved(mango, Dodine, Some(Fongicide)),
      Approved(mango, Captan, Some(Fongicide)),
      Approved(mango, Sulfur, Some(Fongicide)),
      Approved(mango, Folpet, Some(Fongicide)),
      Approved(mango, Thiram, None)>>

Stores == {RowsBefore \o <<row>> \o RowsAfter : row \in ManebRows}

\* Stores that hold a second, approved row for (mango, Maneb), after the
\* first one
DuplicateStores ==
    {RowsBefore
        \o <<Row(mango, Maneb, st, None, Some(1), None, Some(1), None,
                 Some(fongicide)),
             Approved(mango, MANEB, Some(Fongicide))>>
        \o RowsAfter :
        st \in {"Approuvée", "Non approuvée"}}

\* The stores of the batch runs: one (mango, Maneb) row per rule of the
\* two rule chains
BatchStores ==
    {RowsBefore \o <<row>> \o RowsAfter : row \in
        {Row(mango, Maneb, st, exp, Some(1), None, Some(1), None,
             Some(fongicide)) :
            st \in {"Approuvée", "Non approuvée"},
            exp \in {None, Some(IsoString("naive", ExpiryDays * TicksPerDay))}}}

-----------------------------------------------------------------------------
(* Inputs *)

Crops == {Mango}
Substances == {maneb, Unknownicide}
Markets == {EU, eu, Codex, CODEX, FR}
ResidueLevels == {None} \cup {Some(r) : r \in 0..MaxResidue}

\* An element of the list given to check_batch: a dict with 'name' and an
\* optional 'residue_level'
Items ==
    {[name |-> s] : s \in Substances}
    \cup {[name |-> s, residue_level |-> r] :
            s \in Substances, r \in {None, Some(MaxResidue)}}

ItemLists == UNION {[1..n -> Items] : n \in 0..MaxItems}

\* dict.get(key)
Get(dict, key) == IF key \in DOMAIN dict THEN dict[key] ELSE None

-----------------------------------------------------------------------------
(* Outcomes of a call *)

NoOutcome == [kind |-> "none"]
Returned(value) == [kind |-> "result", value |-> value]
Raised(error) == [kind |-> "error", error |-> error]

NoArgs == [crop |-> << >>, substance |-> << >>, target_market |-> << >>,
           residue_level |-> None]

-----------------------------------------------------------------------------
(* check_compliance *)

\* Mutant: every market that is not EU runs the Codex rule chain
MarketOf_ElseCodex(target_market) ==
    IF Upper(target_market) = EU THEN "EU" ELSE "CODEX"

\* lines 100-105: the rule chain that target_market selects
MarketOf(target_market) ==
    IF Upper(target_market) = EU THEN "EU"
    ELSE IF Upper(target_market) = CODEX THEN "CODEX"
    ELSE "unknown"

\* Mutant: every EU rule asks for alternatives
NeedsAlternativesQuery_EveryRule(row) == Truthy(row.pesticide_type)

\* _find_alternatives sends its query: the non-approval rule is the one
\* that calls it, and it returns [] without a query for a falsy type
NeedsAlternativesQuery(row) ==
    EuNotApproved(row) /\ Truthy(row.pesticide_type)

\* _find_alternatives
FindAlternatives(rows, crop, pesticide_type) ==
    IF ~Truthy(pesticide_type) THEN << >>
    ELSE AlternativesQuery(rows, crop, Val(pesticide_type))

\* check_compliance from call to return when no query fails, with
\* datetime.now() = t
CheckCompliance(rows, crop, substance, target_market, residue_level, t) ==
    LET data == FindRecord(rows, crop, substance) IN
    IF data = << >> THEN
        Returned(CreateUnknownResult(crop, substance, target_market,
                                     residue_level))
    ELSE IF MarketOf(target_market) = "EU" THEN
        Returned(CheckEuCompliance(data[1], residue_level, t,
            IF EuNotApproved(data[1])
            THEN FindAlternatives(rows, data[1].crop, data[1].pesticide_type)
            ELSE << >>))
    ELSE IF MarketOf(target_market) = "CODEX" THEN
        Returned(CheckCodexCompliance(data[1], residue_level))
    ELSE Raised("ValueError")

\* The caller calls check_compliance
Call(crop, substance, target_market, residue_level) ==
    /\ bpc = "none"
    /\ pc = "idle"
    /\ calls = 0
    /\ args' = [crop |-> crop, substance |-> substance,
                target_market |-> target_market,
                residue_level |-> residue_level]
    /\ calls' = 1
    /\ response' = << >>
    /\ pc' = "fetch"
    /\ UNCHANGED <<store, now, lookups, outcome, calledAt, prev, bpc,
                   substances, results, boutcome>>

\* The caller repeats the call with the same arguments
Again ==
    /\ bpc = "none"
    /\ pc \in {"returned", "raised"}
    /\ calls < MaxCalls
    /\ prev' = outcome
    /\ calls' = calls + 1
    /\ response' = << >>
    /\ pc' = "fetch"
    /\ UNCHANGED <<store, now, args, lookups, outcome, calledAt, bpc,
                   substances, results, boutcome>>

\* lines 88-92: the primary query returns
PrimaryFetch ==
    /\ pc = "fetch"
    /\ lookups' = Append(lookups, <<calls, "find_record">>)
    /\ response' = FindRecord(store, args.crop, args.substance)
    /\ pc' = "dispatch"
    /\ UNCHANGED <<store, now, args, outcome, calls, calledAt, prev, bpc,
                   substances, results, boutcome>>

\* lines 88-92: the primary query fails
PrimaryFetchFails ==
    /\ pc = "fetch"
    /\ lookups' = Append(lookups, <<calls, "find_record">>)
    /\ outcome' = Raised("LookupFailure")
    /\ pc' = "raised"
    /\ UNCHANGED <<store, now, args, response, calls, calledAt, prev, bpc,
                   substances, results, boutcome>>

\* lines 94-105 and the rule chain called from there, up to the query of
\* _find_alternatives when the chain sends it
Dispatch ==
    /\ pc = "dispatch"
    /\ calledAt' = (calls :> now) @@ calledAt
    /\ IF response = << >> THEN
            /\ outcome' = Returned(CreateUnknownResult(args.crop,
                              args.substance, args.target_market,
                              args.residue_level))
            /\ pc' = "returned"
       ELSE LET row == response[1] IN
            IF MarketOf(args.target_market) = "EU" THEN
                IF NeedsAlternativesQuery(row) THEN
                    /\ pc' = "alternatives"
                    /\ UNCHANGED outcome
                ELSE
                    /\ outcome' = Returned(CheckEuCompliance(row,
                                      args.residue_level, now, << >>))
                    /\ pc' = "returned"
            ELSE IF MarketOf(args.target_market) = "CODEX" THEN
                /\ outcome' = Returned(CheckCodexCompliance(row,
                                  args.residue_level))
                /\ pc' = "returned"
            ELSE
                /\ outcome' = Raised("ValueError")
                /\ pc' = "raised"
    /\ UNCHANGED <<store, now, args, response, lookups, calls, prev, bpc,
                   substances, results, boutcome>>

\* lines 308-316: the alternatives query returns and the non-approval rule
\* returns its result
AlternativesFetch ==
    /\ pc = "alternatives"
    /\ lookups' = Append(lookups, <<calls, "find_alternatives">>)
    /\ LET row == response[1] IN
        outcome' = Returned(CheckEuCompliance(row, args.residue_level, now,
                       FindAlternatives(store, row.crop, row.pesticide_type)))
    /\ pc' = "returned"
    /\ UNCHANGED <<store, now, args, response, calls, calledAt, prev, bpc,
                   substances, results, boutcome>>

\* lines 308-314: the alternatives query fails
AlternativesFetchFails ==
    /\ pc = "alternatives"
    /\ lookups' = Append(lookups, <<calls, "find_alternatives">>)
    /\ outcome' = Raised("LookupFailure")
    /\ pc' = "raised"
    /\ UNCHANGED <<store, now, args, response, calls, calledAt, prev, bpc,
                   substances, results, boutcome>>

\* Time passes
Tick ==
    /\ now < MaxNow
    /\ now' = now + 1
    /\ UNCHANGED <<store, pc, args, response, lookups, outcome, calls,
                   calledAt, prev, bpc, substances, results, boutcome>>

-----------------------------------------------------------------------------
(* check_batch *)

\* The caller calls check_batch: results = []
BatchCall(crop, items, target_market) ==
    /\ bpc = "idle"
    /\ substances' = items
    /\ args' = [NoArgs EXCEPT !.crop = crop, !.target_market = target_market]
    /\ results' = << >>
    /\ bpc' = "loop"
    /\ UNCHANGED <<store, now, pc, response, lookups, outcome, calls,
                   calledAt, prev, boutcome>>

\* lines 371-377: the loop takes the next item and calls check_compliance
BatchIter ==
    /\ bpc = "loop"
    /\ pc = "idle"
    /\ Len(results) < Len(substances)
    /\ LET item == substances[Len(results) + 1] IN
        args' = [args EXCEPT !.substance = item["name"],
                             !.residue_level = Get(item, "residue_level")]
    /\ calls' = calls + 1
    /\ response' = << >>
    /\ pc' = "fetch"
    /\ UNCHANGED <<store, now, lookups, outcome, calledAt, prev, bpc,
                   substances, results, boutcome>>

\* Mutant: the result is put at the front of the list
BatchAppend_Prepend ==
    /\ bpc = "loop"
    /\ pc = "returned"
    /\ results' = <<outcome.value>> \o results
    /\ pc' = "idle"
    /\ UNCHANGED <<store, now, args, response, lookups, outcome, calls,
                   calledAt, prev, bpc, substances, boutcome>>

\* line 378
BatchAppend ==
    /\ bpc = "loop"
    /\ pc = "returned"
    /\ results' = Append(results, outcome.value)
    /\ pc' = "idle"
    /\ UNCHANGED <<store, now, args, response, lookups, outcome, calls,
                   calledAt, prev, bpc, substances, boutcome>>

\* Mutant: the failure is kept as the item's entry and the loop goes on
BatchRaise_PerItem ==
    /\ bpc = "loop"
    /\ pc = "raised"
    /\ results' = Append(results, outcome)
    /\ pc' = "idle"
    /\ UNCHANGED <<store, now, args, response, lookups, outcome, calls,
                   calledAt, prev, bpc, substances, boutcome>>

\* The exception of check_compliance leaves check_batch
BatchRaise ==
    /\ bpc = "loop"
    /\ pc = "raised"
    /\ boutcome' = outcome
    /\ bpc' = "raised"
    /\ UNCHANGED <<store, now, pc, args, response, lookups, outcome, calls,
                   calledAt, prev, substances, results>>

\* line 379
BatchReturn ==
    /\ bpc = "loop"
    /\ pc = "idle"
    /\ Len(results) = Len(substances)
    /\ boutcome' = Returned(results)
    /\ bpc' = "returned"
    /\ UNCHANGED <<store, now, pc, args, response, lookups, outcome, calls,
                   calledAt, prev, substances, results>>

-----------------------------------------------------------------------------
(* Specifications *)

InitCommon ==
    /\ now = 0
    /\ pc = "idle"
    /\ args = NoArgs
    /\ response = << >>
    /\ lookups = << >>
    /\ outcome = NoOutcome
    /\ calls = 0
    /\ calledAt = << >>
    /\ prev = NoOutcome
    /\ substances = << >>
    /\ results = << >>
    /\ boutcome = NoOutcome

Init ==
    /\ store \in Stores \cup DuplicateStores
    /\ bpc = "none"
    /\ InitCommon

InitBatch ==
    /\ store \in BatchStores
    /\ bpc = "idle"
    /\ InitCommon

CheckComplianceStep ==
    \/ PrimaryFetch
    \/ PrimaryFetchFails
    \/ Dispatch
    \/ AlternativesFetch
    \/ AlternativesFetchFails

Next ==
    \/ \E c \in Crops, s \in Substances, m \in Markets, r \in ResidueLevels :
          Call(c, s, m, r)
    \/ Again
    \/ CheckComplianceStep
    \/ Tick

NextBatch ==
    \/ \E c \in Crops, items \in ItemLists, m \in {EU, Codex, FR} :
          BatchCall(c, items, m)
    \/ BatchIter
    \/ BatchAppend
    \/ BatchRaise
    \/ BatchReturn
    \/ CheckComplianceStep
    \/ Tick

Spec == Init /\ [][Next]_vars

SpecBatch == InitBatch /\ [][NextBatch]_vars

TypeOK ==
    /\ pc \in {"idle", "fetch", "dispatch", "alternatives", "returned",
               "raised"}
    /\ bpc \in {"none", "idle", "loop", "returned", "raised"}
    /\ now \in 0..MaxNow
    /\ Len(lookups) <= 2 * calls

-----------------------------------------------------------------------------
(* Vocabulary of the properties *)

\* The running call has returned a ComplianceResult
HasReturned == pc = "returned" /\ outcome.kind = "result"

\* The running call has raised
HasRaised == pc = "raised" /\ outcome.kind = "error"

\* The primary query of the running call was answered
WasAnswered == calls \in DOMAIN calledAt

\* A stored row is the record of the call's crop and substance, compared
\* without regard to case
IsRecordOfCall(row) ==
    /\ Len(row.active_substance) = Len(args.substance)
    /\ Len(row.crop) = Len(args.crop)
    /\ Lower(row.active_substance) = Lower(args.substance)
    /\ Lower(row.crop) = Lower(args.crop)

RecordExists == \E i \in 1..Len(store) : IsRecordOfCall(store[i])

\* The first stored record of the call's crop and substance
Record ==
    store[CHOOSE i \in 1..Len(store) :
            /\ IsRecordOfCall(store[i])
            /\ \A j \in 1..(i - 1) : ~IsRecordOfCall(store[j])]

MarketIsEu == args.target_market \in {EU, eu}
MarketIsCodex == args.target_market \in {Codex, CODEX}

StatusIsNonApproved(row) ==
    row.eu_status = "Non approuvée" \/ row.eu_status = "Non reprise dans la liste"

Verdict(result) == <<result.status, result.severity>>

-----------------------------------------------------------------------------
(* C1 *)

\* C1: for a record whose EU status is one of the two non-approval values,
\* a call with target market EU that returns, returns NON_COMPLIANT and
\* CRITICAL with a list of alternatives (possibly empty) and without GAP
\* recommendations, whatever the residue level, the EU limit and the
\* expiration date; such a call raises only when a query fails.
C1_NonApprovedIsCritical ==
    /\ (HasReturned /\ MarketIsEu /\ RecordExists
            /\ StatusIsNonApproved(Record)) =>
            /\ Verdict(outcome.value) = <<"NON_COMPLIANT", "CRITICAL">>
            /\ ~IsNone(outcome.value.alternatives)
            /\ IsNone(outcome.value.gap_recommendations)
    /\ (HasRaised /\ MarketIsEu /\ RecordExists
            /\ StatusIsNonApproved(Record)) =>
            outcome.error = "LookupFailure"

\* A not-listed record with an expiration date already reached and a residue
\* level below its limit gets the CRITICAL result, with an empty list
C1_Witness ==
    /\ HasReturned
    /\ RecordExists
    /\ Record.eu_status = "Non reprise dans la liste"
    /\ Record.eu_expiration = Some(IsoString("naive", 0))
    /\ Record.mrl_eu = Some(1)
    /\ args.target_market = eu
    /\ args.residue_level = Some(0)
    /\ outcome.value.severity = "CRITICAL"
    /\ IsNone(outcome.value.gap_recommendations)

-----------------------------------------------------------------------------
(* C2 *)

MarketIsUnsupported == calls > 0 /\ ~MarketIsEu /\ ~MarketIsCodex

\* C2 as stated: no call with an unsupported target market returns a
\* ComplianceResult
C2_UnsupportedMarketNeverReturns == ~(HasReturned /\ MarketIsUnsupported)

\* C2: once the primary query is answered, a call with an unsupported target
\* market raises ValueError and returns nothing when a record matches, and
\* returns the UNKNOWN result, with the market echoed, when none matches.
C2_UnsupportedMarketWithRecordRaises ==
    (pc \in {"returned", "raised"} /\ WasAnswered /\ MarketIsUnsupported) =>
        IF RecordExists
        THEN HasRaised /\ outcome.error = "ValueError"
        ELSE /\ HasReturned
             /\ outcome.value.status = "UNKNOWN"
             /\ outcome.value.target_market = args.target_market

\* A call for a stored non-approved record with market FR has raised
C2_Witness ==
    /\ HasRaised
    /\ outcome.error = "ValueError"
    /\ args.target_market = FR
    /\ RecordExists
    /\ StatusIsNonApproved(Record)

-----------------------------------------------------------------------------
(* C3 *)

\* C3 as stated: without a matching record the result is UNKNOWN and INFO
\* and every optional field, the residue level included, is absent
C3_UnknownHasNoOptionalField ==
    (HasReturned /\ ~RecordExists) =>
        /\ Verdict(outcome.value) = <<"UNKNOWN", "INFO">>
        /\ IsNone(outcome.value.mrl_limit)
        /\ IsNone(outcome.value.mrl_flag)
        /\ IsNone(outcome.value.residue_level)
        /\ IsNone(outcome.value.eu_status)
        /\ IsNone(outcome.value.gap_recommendations)
        /\ IsNone(outcome.value.alternatives)
        /\ outcome.value.references = <<"COLEAD GAP Database">>

\* C3: without a matching record the result is UNKNOWN and INFO for every
\* target market, the residue level is the one supplied (absent when none
\* was), every other optional field is absent and references is the one
\* database citation.
C3_UnknownEchoesResidue ==
    (HasReturned /\ ~RecordExists) =>
        /\ Verdict(outcome.value) = <<"UNKNOWN", "INFO">>
        /\ IsNone(outcome.value.mrl_limit)
        /\ IsNone(outcome.value.mrl_flag)
        /\ outcome.value.residue_level = args.residue_level
        /\ IsNone(outcome.value.eu_status)
        /\ IsNone(outcome.value.gap_recommendations)
        /\ IsNone(outcome.value.alternatives)
        /\ outcome.value.references = <<"COLEAD GAP Database">>

\* An UNKNOWN result for a supplied residue level and an unsupported market
C3_Witness ==
    /\ HasReturned
    /\ ~RecordExists
    /\ args.residue_level = Some(1)
    /\ args.target_market = FR
    /\ outcome.value.status = "UNKNOWN"

-----------------------------------------------------------------------------
(* C4 *)

\* The expiry rule does not return: no usable expiration date, or one that
\* lies ExpiryDays or more after the clock value the call read
NotExpiring(row, t) ==
    \/ IsNone(row.eu_expiration)
    \/ Val(row.eu_expiration).form # "naive"
    \/ Val(row.eu_expiration).t - t >= ExpiryDays * TicksPerDay

\* The residue comparison decides the EU result
EuComparisonDecides ==
    /\ MarketIsEu
    /\ RecordExists
    /\ ~StatusIsNonApproved(Record)
    /\ NotExpiring(Record, calledAt[calls])
    /\ ~IsNone(args.residue_level)
    /\ ~IsNone(Record.mrl_eu)

\* The residue comparison decides the Codex result
CodexComparisonDecides ==
    /\ MarketIsCodex
    /\ RecordExists
    /\ ~IsNone(args.residue_level)
    /\ ~IsNone(Record.mrl_codex)

\* C4: where the residue comparison decides, the verdict is NON_COMPLIANT
\* and MAJOR when the residue level is greater than the limit of the market
\* and COMPLIANT and INFO otherwise, a level equal to the limit included.
C4_StrictComparison ==
    /\ (HasReturned /\ EuComparisonDecides) =>
            Verdict(outcome.value) =
                IF Val(args.residue_level) > Val(Record.mrl_eu)
                THEN <<"NON_COMPLIANT", "MAJOR">>
                ELSE <<"COMPLIANT", "INFO">>
    /\ (HasReturned /\ CodexComparisonDecides) =>
            Verdict(outcome.value) =
                IF Val(args.residue_level) > Val(Record.mrl_codex)
                THEN <<"NON_COMPLIANT", "MAJOR">>
                ELSE <<"COMPLIANT", "INFO">>

\* A residue level equal to the EU limit, for an approval that expires
\* exactly ExpiryDays after the call, is COMPLIANT
C4_Witness ==
    /\ HasReturned
    /\ EuComparisonDecides
    /\ Record.eu_expiration = Some(IsoString("naive", ExpiryDays * TicksPerDay))
    /\ args.residue_level = Record.mrl_eu
    /\ outcome.value.status = "COMPLIANT"

-----------------------------------------------------------------------------
(* C5 *)

\* C5: a Codex result echoes the EU status of the record, is never CRITICAL
\* and never a WARNING, is a COMPLIANT/INFO or NON_COMPLIANT/MAJOR verdict
\* when the record has a Codex limit and a residue level is supplied, and is
\* the result the same record would get with any other EU status and
\* expiration date, the echoed status apart.
C5_CodexIgnoresEuStatus ==
    (HasReturned /\ MarketIsCodex /\ RecordExists) =>
        LET record == Record IN
        /\ outcome.value.eu_status = Some(record.eu_status)
        /\ outcome.value.severity # "CRITICAL"
        /\ outcome.value.status # "WARNING"
        /\ (~IsNone(record.mrl_codex) /\ ~IsNone(args.residue_level)) =>
                Verdict(outcome.value) \in {<<"COMPLIANT", "INFO">>,
                                            <<"NON_COMPLIANT", "MAJOR">>}
        /\ \A st \in EuStatuses, exp \in ExpirationDates :
                CheckCodexCompliance(
                    [record EXCEPT !.eu_status = st, !.eu_expiration = exp],
                    args.residue_level)
                = [outcome.value EXCEPT !.eu_status = Some(st)]

\* A Codex verdict for a non-approved record
C5_Witness ==
    /\ HasReturned
    /\ MarketIsCodex
    /\ RecordExists
    /\ Record.eu_status = "Non approuvée"
    /\ args.residue_level = Some(MaxResidue)
    /\ Verdict(outcome.value) = <<"NON_COMPLIANT", "MAJOR">>
    /\ outcome.value.eu_status = Some("Non approuvée")

-----------------------------------------------------------------------------
(* C6 *)

\* C6: when check_batch returns, its list is as long as the list of items,
\* check_compliance was called once per item, and the i-th result is the
\* result of check_compliance for the batch's crop and market and the i-th
\* item's name and residue level, at the time of the i-th call.
C6_BatchPreservesOrder ==
    bpc = "returned" =>
        /\ boutcome.kind = "result"
        /\ Len(boutcome.value) = Len(substances)
        /\ calls = Len(substances)
        /\ \A i \in 1..Len(substances) :
                Returned(boutcome.value[i]) =
                    CheckCompliance(store, args.crop, substances[i]["name"],
                        args.target_market,
                        Get(substances[i], "residue_level"), calledAt[i])

\* A batch of an unknown substance followed by a stored one with a residue
\* level above the limit has returned
C6_Witness ==
    /\ bpc = "returned"
    /\ Len(substances) = 2
    /\ substances[1] = [name |-> Unknownicide]
    /\ substances[2] = [name |-> maneb, residue_level |-> Some(MaxResidue)]
    /\ boutcome.value[1].status = "UNKNOWN"
    /\ boutcome.value[2].status = "NON_COMPLIANT"

-----------------------------------------------------------------------------
(* C7 *)

\* Two calls in a row have both returned a result
TwoResults == HasReturned /\ calls >= 2 /\ prev.kind = "result"

TimeIsNotRead ==
    \/ ~RecordExists
    \/ ~MarketIsEu
    \/ StatusIsNonApproved(Record)
    \/ IsNone(Record.eu_expiration)
    \/ Val(Record.eu_expiration).form # "naive"

\* Both calls were made the same number of whole days before the expiration
SameWholeDays ==
    /\ RecordExists
    /\ ~IsNone(Record.eu_expiration)
    /\ (Val(Record.eu_expiration).t - calledAt[calls]) \div TicksPerDay
       = (Val(Record.eu_expiration).t - calledAt[calls - 1]) \div TicksPerDay

-----------------------------------------------------------------------------
(* C8 *)

\* The queries that call number n sent to the store, in order
LookupsOf(n) == SelectSeq(lookups, LAMBDA e : e[1] = n)

\* C8: every call sends the primary query first and at most one more, the
\* alternatives query; the alternatives query is sent only for a stored
\* non-approved record under target market EU, and the call that sent it
\* returns the NON_COMPLIANT and CRITICAL result.
C8_AtMostTwoLookups ==
    /\ \A n \in 1..calls :
            LookupsOf(n) \in
                {<< >>,
                 << <<n, "find_record">> >>,
                 << <<n, "find_record">>, <<n, "find_alternatives">> >>}
    /\ (pc \in {"returned", "raised"} /\ Len(LookupsOf(calls)) = 2) =>
            /\ MarketIsEu
            /\ RecordExists
            /\ StatusIsNonApproved(Record)
            /\ HasReturned =>
                    Verdict(outcome.value) = <<"NON_COMPLIANT", "CRITICAL">>

\* A second call that has sent both queries and returned
C8_Witness ==
    /\ HasReturned
    /\ calls = 2
    /\ LookupsOf(2) = << <<2, "find_record">>, <<2, "find_alternatives">> >>
    /\ Len(lookups) = 4

-----------------------------------------------------------------------------
(* C9 *)

\* C9: a result carries a list of alternatives only if it is the
\* NON_COMPLIANT and CRITICAL result of the EU chain for a non-approved
\* record; every other result has none.
C9_AlternativesOnlyOnCritical ==
    (HasReturned /\ ~IsNone(outcome.value.alternatives)) =>
        /\ Verdict(outcome.value) = <<"NON_COMPLIANT", "CRITICAL">>
        /\ outcome.value.target_market = EU
        /\ MarketIsEu
        /\ RecordExists
        /\ StatusIsNonApproved(Record)

\* A WARNING result without alternatives, for a record with a pesticide type
C9_Witness ==
    /\ HasReturned
    /\ outcome.value.status = "WARNING"
    /\ Truthy(Record.pesticide_type)
    /\ IsNone(outcome.value.alternatives)

-----------------------------------------------------------------------------
(* C10 *)

\* C10: for an approved record whose expiration date parses and lies less
\* than ExpiryDays days after the time of the call, a call with target
\* market EU returns WARNING and MAJOR with GAP recommendations, whatever
\* the residue level and the EU limit.
C10_ExpiringApprovalWarns ==
    (/\ HasReturned
     /\ MarketIsEu
     /\ RecordExists
     /\ ~StatusIsNonApproved(Record)
     /\ ~IsNone(Record.eu_expiration)
     /\ Val(Record.eu_expiration).form \in {"naive", "aware"}
     /\ Val(Record.eu_expiration).t - calledAt[calls]
            < ExpiryDays * TicksPerDay) =>
        /\ Verdict(outcome.value) = <<"WARNING", "MAJOR">>
        /\ ~IsNone(outcome.value.gap_recommendations)

-----------------------------------------------------------------------------
(* C11 *)

\* The call is for an approved record, under target market EU, whose
\* expiration date is a non-empty string that datetime.fromisoformat rejects
UnparseableExpiration ==
    /\ MarketIsEu
    /\ RecordExists
    /\ ~StatusIsNonApproved(Record)
    /\ ~IsNone(Record.eu_expiration)
    /\ Val(Record.eu_expiration).form = "invalid"

\* C11: for an approved record whose expiration date is present and does
\* not parse, a call with target market EU raises nothing of its own (only
\* a failed query makes it raise) and returns the result of the same record
\* without expiration date: the residue comparison when a residue level and
\* an EU limit are both present, the INFO result otherwise.
C11_UnparseableDateIsSkipped ==
    /\ (HasRaised /\ UnparseableExpiration) =>
            outcome.error = "LookupFailure"
    /\ (HasReturned /\ UnparseableExpiration) =>
            /\ outcome.value =
                    CheckEuCompliance([Record EXCEPT !.eu_expiration = None],
                        args.residue_level, calledAt[calls], << >>)
            /\ Verdict(outcome.value) =
                    IF IsNone(args.residue_level) \/ IsNone(Record.mrl_eu)
                    THEN <<"INFO", "INFO">>
                    ELSE IF Val(args.residue_level) > Val(Record.mrl_eu)
                         THEN <<"NON_COMPLIANT", "MAJOR">>
                         ELSE <<"COMPLIANT", "INFO">>

\* A call after the first instant, for an approved record with an
\* unparseable expiration date and a residue level above the limit, has
\* returned the result of the residue comparison
C11_Witness ==
    /\ HasReturned
    /\ UnparseableExpiration
    /\ calledAt[calls] > 0
    /\ args.residue_level = Some(MaxResidue)
    /\ Verdict(outcome.value) = <<"NON_COMPLIANT", "MAJOR">>

-----------------------------------------------------------------------------
(* C12 *)

\* No call has sent a query twice
NoLookupRepeated ==
    \A n \in 1..calls :
        LookupsOf(n) \in
            {<< >>,
             << <<n, "find_record">> >>,
             << <<n, "find_record">>, <<n, "find_alternatives">> >>}

\* check_batch has raised: what it raised is the error of the call for item
\* number calls, every item before it has its result in the local list, and
\* no call was started and no query sent for an item after it
BatchFailedAtFirstError ==
    bpc = "raised" =>
        /\ boutcome.kind = "error"
        /\ boutcome = outcome
        /\ boutcome.error \in {"LookupFailure", "ValueError"}
        /\ calls = Len(results) + 1
        /\ calls <= Len(substances)
        /\ \A i \in 1..Len(lookups) : lookups[i][1] <= calls
        /\ Len(LookupsOf(calls)) >= 1

\* A step taken once a call of the batch has raised: the call is not taken
\* up again, nothing is appended to the results, no query is sent, no call
\* is started, and check_batch raises that very error and stays there
StepAfterFailure ==
    /\ (bpc = "loop" /\ pc = "raised") =>
            /\ pc' = "raised"
            /\ lookups' = lookups
            /\ results' = results
            /\ calls' = calls
            /\ bpc' \in {"loop", "raised"}
            /\ bpc' = "raised" => boutcome' = outcome
    /\ bpc = "raised" =>
            /\ bpc' = "raised"
            /\ boutcome' = boutcome
            /\ lookups' = lookups
            /\ calls' = calls

\* C12: when the call for item k of a batch raises (LookupFailure or
\* ValueError), check_batch raises that error, the first one, and returns no
\* list; no query is sent twice, none is sent for item k after its failure,
\* and no call or query is made for an item after k.
C12_BatchFailsFast ==
    /\ [](NoLookupRepeated /\ BatchFailedAtFirstError)
    /\ [][StepAfterFailure]_vars

\* A batch of two items has raised the failure of the alternatives query of
\* its first item; nothing was sent for the second
C12_Witness ==
    /\ bpc = "raised"
    /\ Len(substances) = 2
    /\ boutcome = Raised("LookupFailure")
    /\ lookups = << <<1, "find_record">>, <<1, "find_alternatives">> >>
    /\ results = << >>

-----------------------------------------------------------------------------
(* C13 *)

\* The store holds one row at most for the crop and substance of the call
KeyIsUnique == Cardinality({i \in 1..Len(store) : IsRecordOfCall(store[i])}) <= 1

\* A stored row of the record's crop with the approved status and that
\* substance
IsApprovedOnSameCrop(substance) ==
    \E i \in 1..Len(store) :
        /\ store[i].active_substance = substance
        /\ store[i].eu_status = "Approuvée"
        /\ Lower(store[i].crop) = Lower(Record.crop)

====
